---- MODULE Spec2Model ----
(***************************************************************************)
(* A model of the yeval validation engine: createValidator and the rule    *)
(* runners and combinators of util (firstError, allErrors, when, msgFor,   *)
(* oneOfRules).                                                            *)
(*                                                                         *)
(* One built validator (the closure returned by createValidator) is        *)
(* invoked up to MaxCalls times; invocations may overlap, because every    *)
(* rule is awaited.  Each invocation is a stack of pending calls           *)
(* (validators, firstError chains, when and msgFor wrappers); a leaf rule  *)
(* is a step that is invoked and, later, resolves with a value of its own  *)
(* choosing or rejects.                                                    *)
(***************************************************************************)
EXTENDS Integers, Sequences, FiniteSets, TLC

(***************************************************************************)
(* JavaScript values.  Every value carries its type in field t.            *)
(***************************************************************************)
Undef == [t |-> "undef"]
Str(s) == [t |-> "str", s |-> s]
Num(n) == [t |-> "num", n |-> n]
Bool(b) == [t |-> "bool", b |-> b]
Obj(f) == [t |-> "obj", o |-> f]
EmptyObj == Obj(<<>>)
(* An array; as a rule spec, an array of rules (List below).               *)
Arr(items) == [t |-> "arr", items |-> items]

(* Rule specs are JavaScript values too: functions, arrays, plain objects. *)
(* A leaf rule is a function whose result is one of outs.                  *)
Rule(outs) == [t |-> "fn", k |-> "rule", outs |-> outs]
List(items) == [t |-> "arr", k |-> "list", items |-> items]
Tree(keys, sub) == [t |-> "obj", k |-> "tree", keys |-> keys, sub |-> sub]
When(predicate, rules) == [t |-> "fn", k |-> "when", pred |-> predicate, rules |-> rules]
MsgFor(rules, msg) == [t |-> "fn", k |-> "msgFor", rules |-> rules, msg |-> msg]
OneOfRules(rules) == [t |-> "fn", k |-> "oneOf", rules |-> rules]
(* Predicates of when: a function, a promise of a value, or a literal.     *)
PredFn(outs) == [t |-> "fn", k |-> "pred", outs |-> outs]
PromiseOf(v) == [t |-> "promise", v |-> v]

(***************************************************************************)
(* lodash helpers and JavaScript coercions.                                *)
(***************************************************************************)
isPlainObject(v) == v.t = "obj"

isFunction(v) == v.t = "fn"

isEmpty(v) ==
  CASE v.t = "obj" -> DOMAIN v.o = {}
    [] v.t = "str" -> v.s = ""
    [] OTHER -> TRUE

castArray(v) == IF v.t = "arr" THEN v.items ELSE <<v>>

(* Boolean(x) *)
Boolean(v) ==
  CASE v.t = "undef" -> FALSE
    [] v.t = "bool" -> v.b
    [] v.t = "str" -> v.s # ""
    [] v.t = "num" -> v.n # 0
    [] OTHER -> TRUE

(* obj[key]: undefined for a missing key and for a primitive.              *)
Get(v, key) == IF v.t = "obj" /\ key \in DOMAIN v.o THEN v.o[key] ELSE Undef

(* obj[key] throws a TypeError when obj is undefined.                      *)
GetThrows(v) == v.t = "undef"

(***************************************************************************)
(* util.js                                                                 *)
(***************************************************************************)
containsError(validationResult) == validationResult # Undef

(* A mutant of returnUndefinedOnSuccess: the errors object as it is.       *)
returnErrorsAlways(errors) == errors

returnUndefinedOnSuccess(errors) == IF DOMAIN errors.o = {} THEN Undef ELSE errors

(* A mutant of storeErrors: `if (validationResult)`.                       *)
storeErrorsOnTruthy(errors, keyToValidate, validationResult) ==
  IF Boolean(validationResult)
  THEN Obj([x \in DOMAIN errors.o \cup {keyToValidate} |->
              IF x = keyToValidate THEN validationResult ELSE errors.o[x]])
  ELSE errors

(* storeErrors of createValidator: errors[keyToValidate] = validationResult *)
storeErrors(errors, keyToValidate, validationResult) ==
  IF containsError(validationResult)
  THEN Obj([x \in DOMAIN errors.o \cup {keyToValidate} |->
              IF x = keyToValidate THEN validationResult ELSE errors.o[x]])
  ELSE errors

(* A mutant of returnMessageOnError: only a truthy result is an error.     *)
returnMessageOnTruthy(msg, validationResult) ==
  IF Boolean(validationResult) THEN msg ELSE Undef

(* returnMessageOnError of msgFor *)
returnMessageOnError(msg, validationResult) ==
  IF containsError(validationResult) THEN msg ELSE Undef

(* A mutant of shortCircuit: `if (error)`.                                 *)
shortCircuitOnTruthy(error) == Boolean(error)

(* firstError: `error !== undefined` stops the chain.                      *)
shortCircuit(error) == error # Undef

(* Array.prototype.concat.bind(result): an array argument is spread into   *)
(* the result, any other value is appended.                                *)
concat(result, v) == Arr(result.items \o (IF v.t = "arr" THEN v.items ELSE <<v>>))

IsFalsy(err) == ~Boolean(err)
IsTruthy(err) == Boolean(err)

(* oneOfRules, lines 134-136: errors.filter(err => !err).length === 0      *)
oneOfResult(errors) ==
  IF SelectSeq(errors.items, IsFalsy) = <<>>
  THEN IF SelectSeq(errors.items, IsTruthy) = <<>>
       THEN Undef
       ELSE SelectSeq(errors.items, IsTruthy)[1]
  ELSE Undef

(* A mutant of captureWholeData: the seed is ignored.                      *)
captureCurrentData(wholeData_, currentData) == currentData

(* `wholeData = isEmpty(wholeData) ? currentData : wholeData`              *)
captureWholeData(wholeData_, currentData) ==
  IF isEmpty(wholeData_) THEN currentData ELSE wholeData_

(* line 34: the fixed message of an attribute that is not an object.       *)
mismatchMessage(keyToValidate) == Str("Property " \o keyToValidate \o " must be an object")

(* A mutant of executorAt: the executors run last to first.                *)
executorAtReversed(n, i) == n + 1 - i

(* map(perAttributeRules, ...) and Promise.mapSeries: the i-th executor    *)
(* that runs is the one of the i-th declared attribute.                    *)
executorAt(n, i) == i

(* `map` reads currentData[keyToValidate] for every key: it throws when    *)
(* currentData is undefined and the tree declares a key.                   *)
validatorThrows(rules, currentData) == GetThrows(currentData) /\ Len(rules.keys) > 0

(***************************************************************************)
(* Bounds and scenarios.                                                   *)
(***************************************************************************)
MaxCalls == 2

Calls == 1..MaxCalls

someError == Str("Some error")
otherError == Str("")
customErrorMessage == Str("Custom error message")
anotherMessage == Str("Another message")

passes == {Undef}
fails == {someError}
either == {Undef, someError}
anyResult == {Undef, someError, otherError}
trueOrFalse == {Bool(TRUE), Bool(FALSE)}

(* A rule may resolve with an array of messages.                           *)
twoErrors == Arr(<<someError, customErrorMessage>>)

(* Every value a rule or a predicate of the scenarios may resolve with.    *)
Results == anyResult \cup trueOrFalse \cup {twoErrors}

testValues ==
  Obj([deal |-> Str("purchase"),
       car |-> Obj([make |-> Str("BMW"),
                    model |-> Str("5-er"),
                    engine |-> Obj([cylinders |-> Num(6)])])])

notAnObject == Obj([deal |-> Str("purchase"), car |-> Str("not-an-object")])

noCar == Obj([deal |-> Str("purchase")])

(* Nested rule trees, a rule list, single rules.                           *)
nestedRules ==
  Tree(<<"deal", "car", "owner">>,
       [deal |-> List(<<Rule(anyResult), Rule(either), Rule(passes)>>),
        car |-> Tree(<<"make", "engine">>,
                     [make |-> Rule(either),
                      engine |-> Tree(<<"cylinders">>,
                                      [cylinders |-> Rule(either)])]),
        owner |-> Rule(passes)])

(* `when` around a nested tree, with `when` inside it.                     *)
whenTreeRules ==
  Tree(<<"deal", "car">>,
       [deal |-> When(PromiseOf(Bool(FALSE)), Rule(fails)),
        car |-> When(PredFn(trueOrFalse),
                     Tree(<<"make", "engine">>,
                          [make |-> When(PredFn(trueOrFalse), Rule(either)),
                           engine |-> Tree(<<"cylinders">>,
                                           [cylinders |-> When(PredFn({Bool(TRUE)}),
                                                               Rule(passes))])]))])

(* `when` with literal and promise predicates around rules and lists.      *)
whenValueRules ==
  Tree(<<"deal", "car", "owner">>,
       [deal |-> When(Bool(FALSE), Rule(fails)),
        car |-> List(<<When(PromiseOf(Num(0)), Tree(<<"make">>, [make |-> Rule(fails)])),
                       When(PromiseOf(Bool(TRUE)), List(<<Rule(either), Rule(either)>>))>>),
        owner |-> When(Str("yes"), Rule(anyResult))])

(* `msgFor` around a nested tree, with `msgFor` inside it.                 *)
msgForTreeRules ==
  Tree(<<"deal", "car">>,
       [deal |-> Rule(passes),
        car |-> MsgFor(Tree(<<"make", "engine">>,
                            [make |-> MsgFor(Rule(either), anotherMessage),
                             engine |-> Tree(<<"cylinders">>,
                                             [cylinders |-> MsgFor(Rule(either),
                                                                   anotherMessage)])]),
                       customErrorMessage)])

(* `msgFor` around a rule and around a rule list.                          *)
msgForRules ==
  Tree(<<"deal", "car">>,
       [deal |-> MsgFor(Rule(anyResult), customErrorMessage),
        car |-> MsgFor(List(<<Rule(either), Rule(anyResult)>>), anotherMessage)])

(* oneOfRules in a rule list, as in the test 'should perform validation'.  *)
oneOfRulesRules ==
  Tree(<<"deal">>,
       [deal |-> List(<<Rule(passes),
                        OneOfRules(List(<<Rule(anyResult), Rule(either)>>))>>)])

(* oneOfRules over a rule that passes and a rule with a list of messages.  *)
oneOfArrayRules ==
  Tree(<<"deal">>,
       [deal |-> OneOfRules(List(<<Rule(passes), Rule({Undef, twoErrors})>>))])

(* A small tree for repeated and overlapping invocations.                  *)
sharedRules ==
  Tree(<<"deal", "owner">>,
       [deal |-> Rule(either),
        owner |-> Rule(passes)])

(* Every scenario is a built validator and the data it is invoked with;    *)
(* the scenarios marked reentrant are invoked up to MaxCalls times.        *)
Scenarios ==
  << [rules |-> nestedRules, reentrant |-> FALSE,
      datas |-> {testValues, notAnObject}],
     [rules |-> whenTreeRules, reentrant |-> FALSE,
      datas |-> {testValues, noCar}],
     [rules |-> whenValueRules, reentrant |-> FALSE,
      datas |-> {testValues, noCar}],
     [rules |-> msgForTreeRules, reentrant |-> FALSE,
      datas |-> {testValues, noCar}],
     [rules |-> msgForRules, reentrant |-> FALSE,
      datas |-> {testValues}],
     [rules |-> oneOfRulesRules, reentrant |-> FALSE,
      datas |-> {testValues}],
     [rules |-> oneOfArrayRules, reentrant |-> FALSE,
      datas |-> {testValues}],
     [rules |-> sharedRules, reentrant |-> TRUE,
      datas |-> {testValues, EmptyObj}] >>

(***************************************************************************)
(* State.                                                                  *)
(***************************************************************************)
VARIABLES
  sc,         \* the scenario: the rule tree the validator was built from
  wholeData,  \* the closed-over wholeData of the built validator
  calls       \* the invocations of the built validator

vars == <<sc, wholeData, calls>>

perAttributeRules == Scenarios[sc].rules

Attr(a) == [k |-> "attr", i |-> a]
Pos(j) == [k |-> "rule", i |-> j]
(* The position of a rule among the rules allErrors runs.                  *)
Each(j) == [k |-> "each", i |-> j]

NoCall == [status |-> "idle", data |-> Undef, stack |-> <<>>, result |-> Undef, log |-> <<>>]

Frame(kind, spec, path, value, data) ==
  [kind |-> kind, spec |-> spec, path |-> path, value |-> value, data |-> data,
   top |-> FALSE, idx |-> 1, inflight |-> {}, acc |-> Undef, ret |-> Undef,
   phase |-> "start"]

(* A mutant of newErrors: one errors object for all the invocations, so    *)
(* that an invocation starts with what an earlier one has reported.        *)
leftoverErrors(cs) ==
  LET reported == {j \in DOMAIN cs : cs[j].status = "resolved" /\ isPlainObject(cs[j].result)}
  IN IF reported = {} THEN EmptyObj ELSE cs[CHOOSE j \in reported : TRUE].result

(* line 21: `const errors = {}`, a new object in every invocation,         *)
(* whatever the other invocations (cs) have done.                          *)
newErrors(cs) == EmptyObj

ValidatorFrame(spec, path, currentData, wd, top) ==
  [Frame("validator", spec, path, currentData, wd) EXCEPT !.top = top, !.acc = newErrors(calls)]

(* What the log keeps of a rule spec: its kind k; as a chain, its number    *)
(* of rules len; of a when or msgFor, the kind of predicate pred, whether  *)
(* the wrapped rules are a tree, their number inner (of a tree, the number *)
(* of its attributes) and the message msg.                                 *)
Sig(spec) ==
  LET wraps == spec.k \in {"when", "msgFor", "oneOf"}
      nested == IF wraps THEN spec.rules ELSE spec
  IN [k |-> spec.k,
      len |-> Len(castArray(spec)),
      pred |-> IF spec.k = "when" THEN spec.pred.t ELSE "",
      tree |-> wraps /\ isPlainObject(spec.rules),
      inner |-> IF isPlainObject(nested) THEN Len(nested.keys) ELSE Len(castArray(nested)),
      keys |-> IF isPlainObject(nested) THEN nested.keys ELSE <<>>,
      msg |-> IF spec.k = "msgFor" THEN spec.msg ELSE Undef]

(* An entry of the log: what happened (e), where in the rule tree (path),  *)
(* to which function (fn), with which arguments, with which result.        *)
Event(e, path, spec, value, data, res) ==
  [e |-> e, path |-> path, fn |-> Sig(spec), value |-> value, data |-> data, res |-> res]

Top(s) == s[Len(s)]
Pop(s) == SubSeq(s, 1, Len(s) - 1)
SetTop(s, f) == [s EXCEPT ![Len(s)] = f]

Running(i, kind) ==
  /\ calls[i].status = "running"
  /\ calls[i].stack # <<>>
  /\ Top(calls[i].stack).kind = kind

(* The promise of frame f resolves with v: its continuation runs.  s is    *)
(* the stack below f and l the log so far.                                 *)
Deliver(c, s, f, v, l) ==
  IF s = <<>>
  THEN [c EXCEPT !.status = "resolved", !.result = v, !.stack = <<>>, !.log = l]
  ELSE LET p == Top(s) IN
    CASE p.kind = "validator" ->
           \* .then(storeErrors), then mapSeries goes on to the next executor
           LET key == p.spec.keys[f.path[Len(f.path)].i] IN
           [c EXCEPT !.stack = SetTop(s, [p EXCEPT !.acc = storeErrors(p.acc, key, v),
                                                   !.idx = p.idx + 1]),
                     !.log = Append(l, Event("attrDone", f.path, f.spec, f.value, Undef, v))]
      [] p.kind = "firstError" ->
           \* the promise of a rule of the chain resolved
           [c EXCEPT !.stack = SetTop(s, [p EXCEPT !.acc = v,
                                                   !.inflight = p.inflight \ {f.path[Len(f.path)].i}]),
                     !.log = Append(l, Event("resolve", f.path, f.spec, f.value, f.data, v))]
      [] OTHER ->
           \* when, msgFor, oneOfRules: the promise of the wrapped rules resolved
           [c EXCEPT !.stack = SetTop(s, [p EXCEPT !.ret = v, !.phase = "return"]),
                     !.log = l]

(* What a rule that malfunctions throws, and the TypeError of line 24.     *)
ruleFailure == Str("Error thrown by a rule")
typeError == Str("TypeError: Cannot read properties of undefined")

(* A mutant of Reject: the failure is caught and reported as a result.     *)
RejectCaught(c, l, failure) ==
  [c EXCEPT !.status = "resolved", !.result = failure, !.stack = <<>>, !.log = l]

(* Nothing catches a failure: the promise of the whole call rejects.       *)
Reject(c, l, failure) ==
  [c EXCEPT !.status = "rejected", !.result = failure, !.stack = <<>>, !.log = l]

Init ==
  /\ sc \in 1..Len(Scenarios)
  /\ wholeData = EmptyObj
  /\ calls = [i \in Calls |-> NoCall]

(***************************************************************************)
(* createValidator                                                         *)
(***************************************************************************)
(* validator(currentData): lines 19-21 and the construction of executors.  *)
Invoke(i, currentData) ==
  /\ calls[i].status = "idle"
  /\ i > 1 => Scenarios[sc].reentrant /\ calls[i - 1].status # "idle"
  /\ currentData \in Scenarios[sc].datas
  /\ wholeData' = captureWholeData(wholeData, currentData)
  /\ calls' = [calls EXCEPT ![i] =
       [@ EXCEPT !.status = "running", !.data = currentData,
                 !.stack = <<ValidatorFrame(perAttributeRules, <<>>, currentData, Undef, TRUE)>>]]
  /\ UNCHANGED sc

(* The executor mapSeries runs next in validator frame f.                  *)
NextAttr(f) == executorAt(Len(f.spec.keys), f.idx)
NextKey(f) == f.spec.keys[NextAttr(f)]
HasExecutor(f) == f.idx <= Len(f.spec.keys)
(* wholeData as the executor reads it when it runs.                        *)
ClosureData(f) == IF f.top THEN wholeData ELSE f.data

(* line 34: the rules are a tree and the data is not a plain object.       *)
ExecMismatch(i) ==
  /\ Running(i, "validator")
  /\ LET s == calls[i].stack
         f == Top(s)
     IN /\ HasExecutor(f)
        /\ isPlainObject(f.spec.sub[NextKey(f)])
        /\ ~isPlainObject(Get(f.value, NextKey(f)))
        /\ calls' = [calls EXCEPT ![i] =
             [@ EXCEPT !.stack = SetTop(s, [f EXCEPT !.idx = f.idx + 1]),
                       !.log = Append(@, Event("attrDone", Append(f.path, Attr(NextAttr(f))),
                                               f.spec.sub[NextKey(f)], Get(f.value, NextKey(f)),
                                               Undef, mismatchMessage(NextKey(f))))]]
  /\ UNCHANGED <<sc, wholeData>>

(* line 36: createValidator(rulesForKey, wholeData)(dataToValidate)        *)
ExecNested(i) ==
  /\ Running(i, "validator")
  /\ LET s == calls[i].stack
         f == Top(s)
         dataToValidate == Get(f.value, NextKey(f))
     IN /\ HasExecutor(f)
        /\ isPlainObject(f.spec.sub[NextKey(f)])
        /\ isPlainObject(dataToValidate)
        /\ calls' = [calls EXCEPT ![i].stack =
             Append(s, ValidatorFrame(f.spec.sub[NextKey(f)], Append(f.path, Attr(NextAttr(f))),
                                      dataToValidate,
                                      captureWholeData(ClosureData(f), dataToValidate), FALSE))]
  /\ UNCHANGED <<sc, wholeData>>

(* line 39: firstError(rulesForKey)(currentData[keyToValidate], wholeData) *)
ExecChain(i) ==
  /\ Running(i, "validator")
  /\ LET s == calls[i].stack
         f == Top(s)
     IN /\ HasExecutor(f)
        /\ ~isPlainObject(f.spec.sub[NextKey(f)])
        /\ calls' = [calls EXCEPT ![i].stack =
             Append(s, Frame("firstError", f.spec.sub[NextKey(f)],
                             Append(f.path, Attr(NextAttr(f))),
                             Get(f.value, NextKey(f)), ClosureData(f)))]
  /\ UNCHANGED <<sc, wholeData>>

(* lines 48-49: .then(() => errors).then(returnUndefinedOnSuccess)         *)
ValidatorReturn(i) ==
  /\ Running(i, "validator")
  /\ LET s == calls[i].stack
         f == Top(s)
         v == returnUndefinedOnSuccess(f.acc)
     IN /\ ~HasExecutor(f)
        /\ calls' = [calls EXCEPT ![i] =
             Deliver(@, Pop(s), f, v,
                     Append(@.log, Event("validatorDone", f.path, f.spec, f.value, Undef, v)))]
  /\ UNCHANGED <<sc, wholeData>>

(***************************************************************************)
(* firstError                                                              *)
(***************************************************************************)
(* A mutant of canInvokeNext: the next rule does not wait for the last.    *)
canInvokeWithoutWaiting(f) == TRUE

(* `acc.then(...)`: the step of rule N+1 runs when rule N has resolved.    *)
canInvokeNext(f) == f.inflight = {}

ChainRules(f) == castArray(f.spec)

(* The next rule of the chain is to be invoked.                            *)
ToInvoke(i, kind) ==
  /\ Running(i, "firstError")
  /\ LET f == Top(calls[i].stack)
     IN /\ canInvokeNext(f)
        /\ ~shortCircuit(f.acc)
        /\ f.idx <= Len(ChainRules(f))
        /\ ChainRules(f)[f.idx].k = kind

InvokeEvent(f) ==
  Event("invoke", Append(f.path, Pos(f.idx)), ChainRules(f)[f.idx], f.value, f.data, Undef)

(* line 103: executeAsync(() => rule(value, data)), rule a leaf rule       *)
InvokeRule(i) ==
  /\ ToInvoke(i, "rule")
  /\ LET s == calls[i].stack
         f == Top(s)
     IN calls' = [calls EXCEPT ![i] =
          [@ EXCEPT !.stack = SetTop(s, [f EXCEPT !.idx = f.idx + 1,
                                                  !.inflight = f.inflight \cup {f.idx}]),
                    !.log = Append(@, InvokeEvent(f))]]
  /\ UNCHANGED <<sc, wholeData>>

(* The promise a leaf rule returned resolves with v.                       *)
RuleResolve(i, v) ==
  /\ Running(i, "firstError")
  /\ LET s == calls[i].stack
         f == Top(s)
     IN \E j \in f.inflight :
          /\ ChainRules(f)[j].k = "rule"
          /\ v \in ChainRules(f)[j].outs
          /\ calls' = [calls EXCEPT ![i] =
               [@ EXCEPT !.stack = SetTop(s, [f EXCEPT !.acc = v, !.inflight = f.inflight \ {j}]),
                         !.log = Append(@, Event("resolve", Append(f.path, Pos(j)),
                                                 ChainRules(f)[j], f.value, f.data, v))]]
  /\ UNCHANGED <<sc, wholeData>>

(* A leaf rule throws or its promise rejects: nothing catches it.          *)
RuleReject(i) ==
  /\ Running(i, "firstError")
  /\ LET f == Top(calls[i].stack)
     IN \E j \in f.inflight :
          /\ ChainRules(f)[j].k = "rule"
          /\ calls' = [calls EXCEPT ![i] =
               Reject(@, Append(@.log, Event("reject", Append(f.path, Pos(j)),
                                             ChainRules(f)[j], f.value, f.data, ruleFailure)),
                      ruleFailure)]
  /\ UNCHANGED <<sc, wholeData>>

(* The chain's promise resolves: with the first error, or with undefined.  *)
ChainReturn(i) ==
  /\ Running(i, "firstError")
  /\ LET s == calls[i].stack
         f == Top(s)
     IN /\ f.inflight = {}
        /\ shortCircuit(f.acc) \/ f.idx > Len(ChainRules(f))
        /\ calls' = [calls EXCEPT ![i] =
             Deliver(@, Pop(s), f, f.acc,
                     Append(@.log, Event("chainDone", f.path, f.spec, f.value, f.data, f.acc)))]
  /\ UNCHANGED <<sc, wholeData>>

(* line 103: rule(value, data), rule built by when(predicate, rules)       *)
InvokeWhen(i) ==
  /\ ToInvoke(i, "when")
  /\ LET s == calls[i].stack
         f == Top(s)
     IN calls' = [calls EXCEPT ![i] =
          [@ EXCEPT !.stack = Append(SetTop(s, [f EXCEPT !.idx = f.idx + 1,
                                                         !.inflight = f.inflight \cup {f.idx}]),
                                     Frame("when", ChainRules(f)[f.idx],
                                           Append(f.path, Pos(f.idx)), f.value, f.data)),
                    !.log = Append(@, InvokeEvent(f))]]
  /\ UNCHANGED <<sc, wholeData>>

(* line 103: rule(value, data), rule built by msgFor(rules, msg)           *)
InvokeMsgFor(i) ==
  /\ ToInvoke(i, "msgFor")
  /\ LET s == calls[i].stack
         f == Top(s)
     IN calls' = [calls EXCEPT ![i] =
          [@ EXCEPT !.stack = Append(SetTop(s, [f EXCEPT !.idx = f.idx + 1,
                                                         !.inflight = f.inflight \cup {f.idx}]),
                                     Frame("msgFor", ChainRules(f)[f.idx],
                                           Append(f.path, Pos(f.idx)), f.value, f.data)),
                    !.log = Append(@, InvokeEvent(f))]]
  /\ UNCHANGED <<sc, wholeData>>

(***************************************************************************)
(* when                                                                    *)
(***************************************************************************)
(* `createValidator(rules)` of when and msgFor: wholeData defaults to {}.  *)
nestedSeed(data) == EmptyObj

(* line 115: the predicate is a function: predicate(value, data)           *)
WhenPredicateFn(i, r) ==
  /\ Running(i, "when")
  /\ LET s == calls[i].stack
         f == Top(s)
     IN /\ f.phase = "start"
        /\ isFunction(f.spec.pred)
        /\ r \in f.spec.pred.outs
        /\ calls' = [calls EXCEPT ![i] =
             [@ EXCEPT !.stack = SetTop(s, [f EXCEPT !.phase = "decide", !.ret = r]),
                       !.log = Append(@, Event("pred", f.path, f.spec, f.value, f.data, r))]]
  /\ UNCHANGED <<sc, wholeData>>

(* line 115: the predicate is a literal, or a promise that is awaited      *)
WhenPredicateValue(i) ==
  /\ Running(i, "when")
  /\ LET s == calls[i].stack
         f == Top(s)
         r == IF f.spec.pred.t = "promise" THEN f.spec.pred.v ELSE f.spec.pred
     IN /\ f.phase = "start"
        /\ ~isFunction(f.spec.pred)
        /\ calls' = [calls EXCEPT ![i] =
             [@ EXCEPT !.stack = SetTop(s, [f EXCEPT !.phase = "decide", !.ret = r]),
                       !.log = Append(@, Event("pred", f.path, f.spec, f.value, f.data, r))]]
  /\ UNCHANGED <<sc, wholeData>>

(* A mutant of shouldRun: the rules run whatever the predicate.            *)
shouldRunAlways(shouldExecute) == TRUE

(* line 117: if (Boolean(shouldExecute))                                   *)
shouldRun(shouldExecute) == Boolean(shouldExecute)

Deciding(i) ==
  /\ Running(i, "when")
  /\ Top(calls[i].stack).phase = "decide"

(* lines 117-125: the predicate is falsy, the promise resolves undefined   *)
WhenSkip(i) ==
  /\ Deciding(i)
  /\ LET s == calls[i].stack
         f == Top(s)
     IN /\ ~shouldRun(f.ret)
        /\ calls' = [calls EXCEPT ![i] = Deliver(@, Pop(s), f, Undef, @.log)]
  /\ UNCHANGED <<sc, wholeData>>

(* line 120: createValidator(rules)(value)                                 *)
WhenTree(i) ==
  /\ Deciding(i)
  /\ LET s == calls[i].stack
         f == Top(s)
     IN /\ shouldRun(f.ret)
        /\ isPlainObject(f.spec.rules)
        /\ calls' = [calls EXCEPT ![i] =
             IF validatorThrows(f.spec.rules, f.value)
             THEN Reject(@, Append(@.log, Event("typeError", f.path, f.spec, f.value, f.data,
                                                typeError)),
                         typeError)
             ELSE [@ EXCEPT !.stack =
                     Append(SetTop(s, [f EXCEPT !.phase = "body"]),
                            ValidatorFrame(f.spec.rules, f.path, f.value,
                                           captureWholeData(nestedSeed(f.data), f.value), FALSE))]]
  /\ UNCHANGED <<sc, wholeData>>

(* line 122: firstError(rules)(value, data)                                *)
WhenChain(i) ==
  /\ Deciding(i)
  /\ LET s == calls[i].stack
         f == Top(s)
     IN /\ shouldRun(f.ret)
        /\ ~isPlainObject(f.spec.rules)
        /\ calls' = [calls EXCEPT ![i].stack =
             Append(SetTop(s, [f EXCEPT !.phase = "body"]),
                    Frame("firstError", f.spec.rules, f.path, f.value, f.data))]
  /\ UNCHANGED <<sc, wholeData>>

(* The promise of the wrapped rules is the promise of when.                *)
WhenReturn(i) ==
  /\ Running(i, "when")
  /\ LET s == calls[i].stack
         f == Top(s)
     IN /\ f.phase = "return"
        /\ calls' = [calls EXCEPT ![i] = Deliver(@, Pop(s), f, f.ret, @.log)]
  /\ UNCHANGED <<sc, wholeData>>

(***************************************************************************)
(* msgFor                                                                  *)
(***************************************************************************)
(* line 71: createValidator(rules)(value)                                  *)
MsgForTree(i) ==
  /\ Running(i, "msgFor")
  /\ LET s == calls[i].stack
         f == Top(s)
     IN /\ f.phase = "start"
        /\ isPlainObject(f.spec.rules)
        /\ calls' = [calls EXCEPT ![i] =
             IF validatorThrows(f.spec.rules, f.value)
             THEN Reject(@, Append(@.log, Event("typeError", f.path, f.spec, f.value, f.data,
                                                typeError)),
                         typeError)
             ELSE [@ EXCEPT !.stack =
                     Append(SetTop(s, [f EXCEPT !.phase = "body"]),
                            ValidatorFrame(f.spec.rules, f.path, f.value,
                                           captureWholeData(nestedSeed(f.data), f.value), FALSE))]]
  /\ UNCHANGED <<sc, wholeData>>

(* line 73: firstError(castArray(rules))(value, data)                      *)
MsgForChain(i) ==
  /\ Running(i, "msgFor")
  /\ LET s == calls[i].stack
         f == Top(s)
     IN /\ f.phase = "start"
        /\ ~isPlainObject(f.spec.rules)
        /\ calls' = [calls EXCEPT ![i].stack =
             Append(SetTop(s, [f EXCEPT !.phase = "body"]),
                    Frame("firstError", f.spec.rules, f.path, f.value, f.data))]
  /\ UNCHANGED <<sc, wholeData>>

(* line 76: validatePromise.then(returnMessageOnError)                     *)
MsgForReturn(i) ==
  /\ Running(i, "msgFor")
  /\ LET s == calls[i].stack
         f == Top(s)
     IN /\ f.phase = "return"
        /\ calls' = [calls EXCEPT ![i] =
             Deliver(@, Pop(s), f, returnMessageOnError(f.spec.msg, f.ret), @.log)]
  /\ UNCHANGED <<sc, wholeData>>

(***************************************************************************)
(* oneOfRules and allErrors                                                *)
(***************************************************************************)
(* line 103: rule(value, data), rule built by oneOfRules(rules)            *)
InvokeOneOf(i) ==
  /\ ToInvoke(i, "oneOf")
  /\ LET s == calls[i].stack
         f == Top(s)
     IN calls' = [calls EXCEPT ![i] =
          [@ EXCEPT !.stack = Append(SetTop(s, [f EXCEPT !.idx = f.idx + 1,
                                                         !.inflight = f.inflight \cup {f.idx}]),
                                     Frame("oneOf", ChainRules(f)[f.idx],
                                           Append(f.path, Pos(f.idx)), f.value, f.data)),
                    !.log = Append(@, InvokeEvent(f))]]
  /\ UNCHANGED <<sc, wholeData>>

(* line 132: allErrors(rulesToApply)(value, data), from Promise.resolve([]) *)
OneOfStart(i) ==
  /\ Running(i, "oneOf")
  /\ LET s == calls[i].stack
         f == Top(s)
     IN /\ f.phase = "start"
        /\ calls' = [calls EXCEPT ![i].stack =
             Append(SetTop(s, [f EXCEPT !.phase = "body"]),
                    [Frame("allErrors", f.spec.rules, f.path, f.value, f.data)
                       EXCEPT !.acc = Arr(<<>>)])]
  /\ UNCHANGED <<sc, wholeData>>

(* line 85: acc.then(result => executeAsync(() => rule(value, data))...)   *)
(* The rules given to oneOfRules in the scenarios are leaf rules.          *)
AllErrorsInvoke(i) ==
  /\ Running(i, "allErrors")
  /\ LET s == calls[i].stack
         f == Top(s)
     IN /\ f.inflight = {}
        /\ f.idx <= Len(ChainRules(f))
        /\ ChainRules(f)[f.idx].k = "rule"
        /\ calls' = [calls EXCEPT ![i] =
             [@ EXCEPT !.stack = SetTop(s, [f EXCEPT !.idx = f.idx + 1,
                                                     !.inflight = {f.idx}]),
                       !.log = Append(@, Event("invoke", Append(f.path, Each(f.idx)),
                                               ChainRules(f)[f.idx], f.value, f.data, Undef))]]
  /\ UNCHANGED <<sc, wholeData>>

(* line 85: .then(Array.prototype.concat.bind(result))                     *)
AllErrorsResolve(i, v) ==
  /\ Running(i, "allErrors")
  /\ LET s == calls[i].stack
         f == Top(s)
     IN \E j \in f.inflight :
          /\ v \in ChainRules(f)[j].outs
          /\ calls' = [calls EXCEPT ![i] =
               [@ EXCEPT !.stack = SetTop(s, [f EXCEPT !.acc = concat(f.acc, v),
                                                       !.inflight = {}]),
                         !.log = Append(@, Event("resolve", Append(f.path, Each(j)),
                                                 ChainRules(f)[j], f.value, f.data, v))]]
  /\ UNCHANGED <<sc, wholeData>>

(* A rule run by allErrors throws or its promise rejects.                  *)
AllErrorsReject(i) ==
  /\ Running(i, "allErrors")
  /\ LET f == Top(calls[i].stack)
     IN \E j \in f.inflight :
          calls' = [calls EXCEPT ![i] =
            Reject(@, Append(@.log, Event("reject", Append(f.path, Each(j)),
                                          ChainRules(f)[j], f.value, f.data, ruleFailure)),
                   ruleFailure)]
  /\ UNCHANGED <<sc, wholeData>>

(* lines 83-88: the promise of the reduce resolves with the results.       *)
AllErrorsReturn(i) ==
  /\ Running(i, "allErrors")
  /\ LET s == calls[i].stack
         f == Top(s)
     IN /\ f.inflight = {}
        /\ f.idx > Len(ChainRules(f))
        /\ calls' = [calls EXCEPT ![i] =
             Deliver(@, Pop(s), f, f.acc,
                     Append(@.log, Event("allDone", f.path, f.spec, f.value, f.data, f.acc)))]
  /\ UNCHANGED <<sc, wholeData>>

(* lines 133-137: .then(errors => ...)                                     *)
OneOfReturn(i) ==
  /\ Running(i, "oneOf")
  /\ LET s == calls[i].stack
         f == Top(s)
     IN /\ f.phase = "return"
        /\ calls' = [calls EXCEPT ![i] = Deliver(@, Pop(s), f, oneOfResult(f.ret), @.log)]
  /\ UNCHANGED <<sc, wholeData>>

Next ==
  \/ \E i \in Calls, d \in Scenarios[sc].datas : Invoke(i, d)
  \/ \E i \in Calls : ExecMismatch(i)
  \/ \E i \in Calls : ExecNested(i)
  \/ \E i \in Calls : ExecChain(i)
  \/ \E i \in Calls : ValidatorReturn(i)
  \/ \E i \in Calls : InvokeRule(i)
  \/ \E i \in Calls : InvokeWhen(i)
  \/ \E i \in Calls : InvokeMsgFor(i)
  \/ \E i \in Calls, v \in Results : RuleResolve(i, v)
  \/ \E i \in Calls : RuleReject(i)
  \/ \E i \in Calls : ChainReturn(i)
  \/ \E i \in Calls, r \in Results : WhenPredicateFn(i, r)
  \/ \E i \in Calls : WhenPredicateValue(i)
  \/ \E i \in Calls : WhenSkip(i)
  \/ \E i \in Calls : WhenTree(i)
  \/ \E i \in Calls : WhenChain(i)
  \/ \E i \in Calls : WhenReturn(i)
  \/ \E i \in Calls : MsgForTree(i)
  \/ \E i \in Calls : MsgForChain(i)
  \/ \E i \in Calls : MsgForReturn(i)
  \/ \E i \in Calls : InvokeOneOf(i)
  \/ \E i \in Calls : OneOfStart(i)
  \/ \E i \in Calls : AllErrorsInvoke(i)
  \/ \E i \in Calls, v \in Results : AllErrorsResolve(i, v)
  \/ \E i \in Calls : AllErrorsReject(i)
  \/ \E i \in Calls : AllErrorsReturn(i)
  \/ \E i \in Calls : OneOfReturn(i)

Spec == Init /\ [][Next]_vars

(* What invocation i does once the caller has invoked the validator: the   *)
(* continuations of its promises, and its rules and predicates settling.   *)
CallStep(i) ==
  \/ ExecMismatch(i) \/ ExecNested(i) \/ ExecChain(i) \/ ValidatorReturn(i)
  \/ InvokeRule(i) \/ RuleReject(i) \/ ChainReturn(i)
  \/ \E v \in Results : RuleResolve(i, v)
  \/ InvokeWhen(i) \/ InvokeMsgFor(i)
  \/ \E r \in Results : WhenPredicateFn(i, r)
  \/ WhenPredicateValue(i) \/ WhenSkip(i) \/ WhenTree(i) \/ WhenChain(i) \/ WhenReturn(i)
  \/ MsgForTree(i) \/ MsgForChain(i) \/ MsgForReturn(i)
  \/ InvokeOneOf(i) \/ OneOfStart(i) \/ AllErrorsInvoke(i) \/ AllErrorsReject(i)
  \/ \E v \in Results : AllErrorsResolve(i, v)
  \/ AllErrorsReturn(i) \/ OneOfReturn(i)

(* The event loop runs every continuation of a settled promise, and every  *)
(* rule and predicate settles: no invocation that can take a step waits    *)
(* forever. Whether the validator is invoked is up to the caller.          *)
FairSpec == Spec /\ \A i \in Calls : WF_vars(CallStep(i))

(***************************************************************************)
(* Properties.  The log of an invocation records, in order, every rule     *)
(* and predicate it invoked with the arguments passed, every result, and   *)
(* the completion of every chain, validator and attribute.                 *)
(***************************************************************************)
Log(i) == calls[i].log

IsStrictPrefix(p, q) == Len(p) < Len(q) /\ SubSeq(q, 1, Len(p)) = p

(* The built validator has been invoked once, as invocation i.             *)
OnlyCall(i) == calls[i].status # "idle" /\ \A j \in Calls \ {i} : calls[j].status = "idle"

(* No leaf rule of invocation i has resolved with an error among the       *)
(* first n events.                                                         *)
NoRuleFailed(i, n) ==
  \A m \in 1..n :
    Log(i)[m].e = "resolve" /\ Log(i)[m].fn.k = "rule" => Log(i)[m].res = Undef

(* The body of a when or msgFor at path p has completed with result v      *)
(* before event m: a validator for a rule tree, a chain otherwise.         *)
BodyDone(i, fn, p, m, v) ==
  \E b \in 1..(m - 1) :
    /\ Log(i)[b].e = IF fn.tree THEN "validatorDone" ELSE "chainDone"
    /\ Log(i)[b].path = p
    /\ Log(i)[b].res = v

(* C1: when no rule invoked during a call resolved with a value other      *)
(* than undefined, the validator (and every nested validator of the call)  *)
(* resolves with undefined, never with an empty object.                    *)
C1_UndefinedOnSuccess ==
  \A i \in Calls :
    /\ calls[i].status = "resolved" /\ NoRuleFailed(i, Len(Log(i)))
         => calls[i].result = Undef
    /\ \A n \in DOMAIN Log(i) :
         Log(i)[n].e = "validatorDone" /\ NoRuleFailed(i, n) => Log(i)[n].res = Undef

(* A call over nested trees resolved after its rules ran and all passed.   *)
C1_Witness ==
  \E i \in Calls :
    /\ calls[i].status = "resolved"
    /\ NoRuleFailed(i, Len(Log(i)))
    /\ calls[i].result = Undef
    /\ \E n \in DOMAIN Log(i) :
         Log(i)[n].e = "validatorDone" /\ Len(Log(i)[n].path) = 2
    /\ \E n \in DOMAIN Log(i) :
         Log(i)[n].e = "resolve" /\ Log(i)[n].fn.k = "rule" /\ Len(Log(i)[n].path) = 4

(* C2: when the rules of a top-level attribute are a nested tree and the   *)
(* data for it is not a plain object, the resolved report holds the        *)
(* message 'Property <name> must be an object' under that attribute.       *)
C2_MismatchReported ==
  \A i \in Calls :
    calls[i].status = "resolved" =>
      \A a \in 1..Len(perAttributeRules.keys) :
        LET key == perAttributeRules.keys[a] IN
        isPlainObject(perAttributeRules.sub[key]) /\ ~isPlainObject(Get(calls[i].data, key))
          => Get(calls[i].result, key) = mismatchMessage(key)

(* The path leads through plain nested trees only: attributes, then the    *)
(* position of the rule in the chain of the last attribute.                *)
PlainPath(p) == \A m \in 1..(Len(p) - 1) : p[m].k = "attr"

(* C3: in a single invocation of the validator, every leaf rule reached    *)
(* through plain nested trees receives the top-level data of that          *)
(* invocation as its second argument, at any depth.                        *)
C3_WholeDataInNestedTrees ==
  \A i \in Calls :
    OnlyCall(i) =>
      \A n \in DOMAIN Log(i) :
        Log(i)[n].e = "invoke" /\ Log(i)[n].fn.k = "rule" /\ PlainPath(Log(i)[n].path)
          => Log(i)[n].data = calls[i].data

(* A rule three trees deep was invoked on a value of the innermost object. *)
C3_Witness ==
  \E i \in Calls :
    /\ OnlyCall(i)
    /\ \E n \in DOMAIN Log(i) :
         /\ Log(i)[n].e = "invoke" /\ Log(i)[n].fn.k = "rule"
         /\ PlainPath(Log(i)[n].path) /\ Len(Log(i)[n].path) = 4
         /\ Log(i)[n].value = Num(6)
         /\ Log(i)[n].data = testValues

(* Event n of invocation i is a rule or a function predicate invoked       *)
(* inside the rule tree wrapped by a combinator of the given kind.         *)
InsideWrappedTree(i, n, kind) ==
  /\ \/ Log(i)[n].e = "invoke"
     \/ Log(i)[n].e = "pred" /\ Log(i)[n].fn.pred = "fn"
  /\ \E m \in 1..(n - 1) :
       /\ Log(i)[m].e = "invoke"
       /\ Log(i)[m].fn.k = kind
       /\ Log(i)[m].fn.tree
       /\ IsStrictPrefix(Log(i)[m].path, Log(i)[n].path)

(* C4: every predicate and rule inside a rule tree wrapped by `when`       *)
(* receives the top-level data as its second argument.                     *)
C4_WholeDataInsideWhen ==
  \A i \in Calls :
    OnlyCall(i) =>
      \A n \in DOMAIN Log(i) :
        InsideWrappedTree(i, n, "when") => Log(i)[n].data = calls[i].data

(* C5: every rule inside a rule tree wrapped by `msgFor` receives the      *)
(* top-level data as its second argument.                                  *)
C5_WholeDataInsideMsgFor ==
  \A i \in Calls :
    OnlyCall(i) =>
      \A n \in DOMAIN Log(i) :
        InsideWrappedTree(i, n, "msgFor") => Log(i)[n].data = calls[i].data

(* The path of the chain that the rule at path p belongs to.               *)
ChainOf(p) == SubSeq(p, 1, Len(p) - 1)

(* The event at path p is of a rule run by firstError (a rule of           *)
(* oneOfRules is run by allErrors).                                        *)
RunByFirstError(p) == p[Len(p)].k = "rule"

(* C6: once rule N of a chain resolved with a value other than undefined,  *)
(* no later rule of the chain is invoked and the chain resolves with that  *)
(* value; a chain whose rules all resolved with undefined ran all of them  *)
(* and resolves with undefined.                                            *)
C6_FirstErrorStops ==
  \A i \in Calls :
    \A n \in DOMAIN Log(i) :
      /\ /\ Log(i)[n].e = "resolve" /\ Log(i)[n].res # Undef
         /\ RunByFirstError(Log(i)[n].path)
         => \A m \in DOMAIN Log(i) :
             /\ ~( /\ Log(i)[m].e = "invoke"
                   /\ ChainOf(Log(i)[m].path) = ChainOf(Log(i)[n].path)
                   /\ Log(i)[m].path[Len(Log(i)[m].path)].i
                        > Log(i)[n].path[Len(Log(i)[n].path)].i )
             /\ Log(i)[m].e = "chainDone" /\ Log(i)[m].path = ChainOf(Log(i)[n].path)
                  => Log(i)[m].res = Log(i)[n].res
      /\ /\ Log(i)[n].e = "chainDone"
         /\ \A m \in 1..n :
              Log(i)[m].e = "resolve" /\ ChainOf(Log(i)[m].path) = Log(i)[n].path
                => Log(i)[m].res = Undef
         => /\ Log(i)[n].res = Undef
            /\ \A j \in 1..Log(i)[n].fn.len :
                 \E m \in 1..n :
                   /\ Log(i)[m].e = "resolve"
                   /\ Log(i)[m].path = Append(Log(i)[n].path, Pos(j))

(* The first rule of a chain of three resolved with an error and the       *)
(* chain resolved.                                                         *)
C6_Witness ==
  \E i \in Calls :
    \E n, m \in DOMAIN Log(i) :
      /\ Log(i)[n].e = "resolve" /\ Log(i)[n].res # Undef
      /\ Log(i)[n].path[Len(Log(i)[n].path)].i = 1
      /\ Log(i)[m].e = "chainDone" /\ Log(i)[m].path = ChainOf(Log(i)[n].path)
      /\ Log(i)[m].fn.len = 3
      /\ Log(i)[m].res = Log(i)[n].res

(* C7: rule N+1 of a chain is invoked only after rule N has resolved.      *)
C7_RulesInSeries ==
  \A i \in Calls :
    \A n \in DOMAIN Log(i) :
      /\ Log(i)[n].e = "invoke" /\ Log(i)[n].path[Len(Log(i)[n].path)].i > 1
      /\ RunByFirstError(Log(i)[n].path)
      => \E m \in 1..(n - 1) :
          /\ Log(i)[m].e = "resolve"
          /\ Log(i)[m].path = Append(ChainOf(Log(i)[n].path),
                                     Pos(Log(i)[n].path[Len(Log(i)[n].path)].i - 1))

(* The third rule of a chain was invoked.                                  *)
C7_Witness ==
  \E i \in Calls :
    \E n \in DOMAIN Log(i) :
      Log(i)[n].e = "invoke" /\ Log(i)[n].path[Len(Log(i)[n].path)].i = 3

(* C8: for siblings A before B, when a rule of B (or of B's subtree) is    *)
(* invoked, A's validation has completed and everything in A's subtree     *)
(* has happened before.                                                    *)
C8_AttributesInSeries ==
  \A i \in Calls :
    \A n \in DOMAIN Log(i) :
      Log(i)[n].e = "invoke" =>
        \A d \in 1..Len(Log(i)[n].path) :
          Log(i)[n].path[d].k = "attr" =>
            \A a \in 1..(Log(i)[n].path[d].i - 1) :
              LET A == Append(SubSeq(Log(i)[n].path, 1, d - 1), Attr(a)) IN
              /\ \E m \in 1..(n - 1) : Log(i)[m].e = "attrDone" /\ Log(i)[m].path = A
              /\ \A m \in DOMAIN Log(i) :
                   Log(i)[m].path = A \/ IsStrictPrefix(A, Log(i)[m].path) => m < n

(* A rule of the third attribute was invoked after the second attribute,   *)
(* a nested tree two levels deep, had run its rules.                       *)
C8_Witness ==
  \E i \in Calls :
    \E n, m \in DOMAIN Log(i) :
      /\ Log(i)[n].e = "invoke" /\ Log(i)[n].path = <<Attr(3), Pos(1)>>
      /\ Log(i)[m].e = "resolve" /\ Len(Log(i)[m].path) = 4 /\ Log(i)[m].path[1] = Attr(2)

(* C9: a falsy predicate of `when` (literal, function result or resolved   *)
(* promise) means that nothing of its rules is ever invoked and that it    *)
(* resolves with undefined; with a truthy predicate the rules are run, by  *)
(* a nested validator for a tree and by a chain otherwise, and `when`      *)
(* resolves with their result.                                             *)
C9_When ==
  \A i \in Calls :
    \A n \in DOMAIN Log(i) :
      Log(i)[n].e = "pred" =>
        LET p == Log(i)[n].path
            fn == Log(i)[n].fn
        IN IF ~Boolean(Log(i)[n].res)
           THEN \A m \in DOMAIN Log(i) :
                  /\ ~IsStrictPrefix(p, Log(i)[m].path)
                  /\ Log(i)[m].path = p => Log(i)[m].e \in {"invoke", "pred", "resolve"}
                  /\ Log(i)[m].path = p /\ Log(i)[m].e = "resolve" => Log(i)[m].res = Undef
           ELSE \A m \in DOMAIN Log(i) :
                  Log(i)[m].path = p /\ Log(i)[m].e = "resolve" =>
                    /\ BodyDone(i, fn, p, m, Log(i)[m].res)
                    /\ IF fn.tree
                       THEN \A a \in 1..fn.inner :
                              \E b \in (n + 1)..(m - 1) :
                                Log(i)[b].e = "attrDone" /\ Log(i)[b].path = Append(p, Attr(a))
                       ELSE fn.inner > 0 =>
                              \E b \in (n + 1)..(m - 1) :
                                Log(i)[b].e = "invoke" /\ Log(i)[b].path = Append(p, Pos(1))

(* In one call a `when` with a falsy promise resolved with undefined and   *)
(* a `when` with a truthy function predicate resolved with the report of   *)
(* its rule tree.                                                          *)
C9_Witness ==
  \E i \in Calls :
    \E n, m, n2, m2 \in DOMAIN Log(i) :
      /\ Log(i)[n].e = "pred" /\ Log(i)[n].fn.pred = "promise" /\ ~Boolean(Log(i)[n].res)
      /\ Log(i)[m].e = "resolve" /\ Log(i)[m].path = Log(i)[n].path /\ Log(i)[m].res = Undef
      /\ Log(i)[n2].e = "pred" /\ Log(i)[n2].fn.pred = "fn" /\ Boolean(Log(i)[n2].res)
      /\ Log(i)[n2].fn.tree
      /\ Log(i)[m2].e = "resolve" /\ Log(i)[m2].path = Log(i)[n2].path
      /\ isPlainObject(Log(i)[m2].res)

(* C10: msgFor(rules, X) resolves with X when its rules (a rule, a list or *)
(* a tree) resolved with anything but undefined, whatever it is, and with  *)
(* undefined when they resolved with undefined.                            *)
C10_MsgFor ==
  \A i \in Calls :
    \A m \in DOMAIN Log(i) :
      Log(i)[m].e = "resolve" /\ Log(i)[m].fn.k = "msgFor" =>
        \E b \in 1..(m - 1) :
          /\ Log(i)[b].e = IF Log(i)[m].fn.tree THEN "validatorDone"
                                                                   ELSE "chainDone"
          /\ Log(i)[b].path = Log(i)[m].path
          /\ Log(i)[m].res = IF Log(i)[b].res # Undef THEN Log(i)[m].fn.msg ELSE Undef

(* A msgFor around a rule tree resolved with its message in place of the   *)
(* report of the tree.                                                     *)
C10_Witness ==
  \E i \in Calls :
    \E m, b \in DOMAIN Log(i) :
      /\ Log(i)[m].e = "resolve" /\ Log(i)[m].fn.k = "msgFor"
      /\ Log(i)[m].fn.tree
      /\ Log(i)[b].e = "validatorDone" /\ Log(i)[b].path = Log(i)[m].path
      /\ isPlainObject(Log(i)[b].res)
      /\ Log(i)[m].res = customErrorMessage

(* The result the rule at path p resolved with during call i.              *)
RuleResult(i, p) ==
  Log(i)[CHOOSE m \in DOMAIN Log(i) : Log(i)[m].e = "resolve" /\ Log(i)[m].path = p].res

(* C11: oneOfRules resolves with undefined when at least one of its rules  *)
(* resolved with undefined; when every rule resolved with a value other    *)
(* than undefined it resolves with the message of the first rule.          *)
C11_OneOfRules ==
  \A i \in Calls :
    \A n \in DOMAIN Log(i) :
      Log(i)[n].e = "resolve" /\ Log(i)[n].fn.k = "oneOf" =>
        Log(i)[n].res =
          IF \E j \in 1..Log(i)[n].fn.inner :
               RuleResult(i, Append(Log(i)[n].path, Each(j))) = Undef
          THEN Undef
          ELSE RuleResult(i, Append(Log(i)[n].path, Each(1)))

(* C12: every runner and combinator takes a result for a failure exactly   *)
(* when it is not undefined: firstError stops on it, the validator stores  *)
(* it under its key, msgFor replaces it by the message, oneOfRules fails   *)
(* when all of its rules resolved with one.                                *)
C12_FailureIsNotUndefined ==
  \A i \in Calls :
    \A n \in DOMAIN Log(i) :
      /\ /\ Log(i)[n].e = "resolve" /\ containsError(Log(i)[n].res)
         /\ RunByFirstError(Log(i)[n].path)
         => \A m \in DOMAIN Log(i) :
              Log(i)[m].e = "chainDone" /\ Log(i)[m].path = ChainOf(Log(i)[n].path)
                => Log(i)[m].res = Log(i)[n].res
      /\ /\ Log(i)[n].e = "attrDone" /\ containsError(Log(i)[n].res)
         /\ Log(i)[n].fn.k = "tree" => isPlainObject(Log(i)[n].value)
         => \A m \in DOMAIN Log(i) :
              Log(i)[m].e = "validatorDone" /\ Log(i)[m].path = ChainOf(Log(i)[n].path)
                => /\ isPlainObject(Log(i)[m].res)
                   /\ \E a \in DOMAIN Log(i)[m].res.o :
                        /\ a = Log(i)[m].fn.keys[Log(i)[n].path[Len(Log(i)[n].path)].i]
                        /\ Log(i)[m].res.o[a] = Log(i)[n].res
      /\ /\ Log(i)[n].e = "resolve" /\ Log(i)[n].fn.k = "msgFor"
         /\ \E v \in Results \ {Undef} :
              BodyDone(i, Log(i)[n].fn, Log(i)[n].path, n, v)
         => Log(i)[n].res = Log(i)[n].fn.msg
      /\ /\ Log(i)[n].e = "resolve" /\ Log(i)[n].fn.k = "oneOf"
         /\ \A j \in 1..Log(i)[n].fn.inner :
              containsError(RuleResult(i, Append(Log(i)[n].path, Each(j))))
         => containsError(Log(i)[n].res)

(* C17: allErrors invokes each of its rules once, in order, whatever the   *)
(* earlier rules resolved with, and resolves with as many results as       *)
(* there are rules, the j-th being the result of the j-th rule.            *)
C17_AllErrors ==
  \A i \in Calls :
    \A n \in DOMAIN Log(i) :
      Log(i)[n].e = "allDone" =>
        /\ \A j \in 1..Log(i)[n].fn.len :
             /\ Cardinality({m \in 1..n :
                               /\ Log(i)[m].e = "invoke"
                               /\ Log(i)[m].path = Append(Log(i)[n].path, Each(j))}) = 1
             /\ j > 1 =>
                  \E a, b \in 1..n :
                    /\ a < b
                    /\ Log(i)[a].e = "resolve"
                    /\ Log(i)[a].path = Append(Log(i)[n].path, Each(j - 1))
                    /\ Log(i)[b].e = "invoke"
                    /\ Log(i)[b].path = Append(Log(i)[n].path, Each(j))
        /\ Len(Log(i)[n].res.items) = Log(i)[n].fn.len
        /\ \A j \in 1..Log(i)[n].fn.len :
             Log(i)[n].res.items[j] = RuleResult(i, Append(Log(i)[n].path, Each(j)))

(* A rule invoked during call i threw or its promise rejected.             *)
SomeRuleRejected(i) == \E n \in DOMAIN Log(i) : Log(i)[n].e = "reject"

(* C13: a call whose rules and predicates all resolve does not reject,     *)
(* whatever the data, also when an attribute declared with a rule tree     *)
(* inside when or msgFor is absent from the data.                          *)
C13_NeverRejects ==
  \A i \in Calls : calls[i].status = "rejected" => SomeRuleRejected(i)

(* C14: when a rule throws or its promise rejects, the call rejects with   *)
(* that failure: nothing more is run and the failure is not reported as    *)
(* a validation result.                                                    *)
C14_RuleFailureRejects ==
  \A i \in Calls :
    \A n \in DOMAIN Log(i) :
      Log(i)[n].e = "reject" =>
        /\ calls[i].status = "rejected"
        /\ calls[i].result = Log(i)[n].res
        /\ n = Len(Log(i))

(* A rule of a nested tree threw after a rule of an earlier attribute      *)
(* had failed, and the call rejected.                                      *)
C14_Witness ==
  \E i \in Calls :
    /\ calls[i].status = "rejected"
    /\ calls[i].result = ruleFailure
    /\ \E n, m \in DOMAIN Log(i) :
         /\ Log(i)[n].e = "reject" /\ Len(Log(i)[n].path) > 2
         /\ Log(i)[m].e = "attrDone" /\ containsError(Log(i)[m].res)

(* C15: the closed-over wholeData is captured by the first invocation of   *)
(* the validator and no later invocation changes it, whatever data the     *)
(* invocations are given.                                                  *)
C15_WholeDataCapturedOnce ==
  calls[1].status # "idle" => wholeData = calls[1].data

(* C20: all the rules invoked during one invocation of the validator are   *)
(* given the same wholeData, also when another invocation, with other      *)
(* data, starts while the first one awaits a rule.                         *)
C20_OneWholeDataPerInvocation ==
  \A i \in Calls :
    \A n, m \in DOMAIN Log(i) :
      Log(i)[n].e = "invoke" /\ Log(i)[m].e = "invoke" =>
        Log(i)[n].data = Log(i)[m].data

(* The event that ends the validation of attribute a of the validator at   *)
(* path p, among the first n events of call i.                             *)
AttrDone(i, p, a, n) ==
  CHOOSE m \in 1..n : Log(i)[m].e = "attrDone" /\ Log(i)[m].path = Append(p, Attr(a))

(* Every attribute of the validator at path p that is declared with a      *)
(* nested rule tree holds a plain object in the data.                      *)
NestedDataArePlainObjects(i, p, n) ==
  \A m \in 1..n :
    /\ Log(i)[m].e = "attrDone" /\ ChainOf(Log(i)[m].path) = p
    /\ Log(i)[m].fn.k = "tree"
    => isPlainObject(Log(i)[m].value)

(* C16: the report a validator resolves with has a key exactly for the     *)
(* declared attributes whose validation resolved with a value other than   *)
(* undefined, holding that value; the value of an attribute declared       *)
(* with a nested tree is the report of the nested validator, of a rule     *)
(* or list the result of its chain; no other key appears and nothing is    *)
(* validated but the declared attributes. For data whose attributes        *)
(* declared with a nested tree are plain objects.                          *)
C16_ReportShape ==
  \A i \in Calls :
    \A n \in DOMAIN Log(i) :
      Log(i)[n].e = "validatorDone" /\ NestedDataArePlainObjects(i, Log(i)[n].path, n) =>
        LET p == Log(i)[n].path
            keys == Log(i)[n].fn.keys
            failed == {a \in 1..Len(keys) : containsError(Log(i)[AttrDone(i, p, a, n)].res)}
        IN /\ \A a \in 1..Len(keys) :
                /\ Cardinality({m \in 1..n : /\ Log(i)[m].e = "attrDone"
                                             /\ Log(i)[m].path = Append(p, Attr(a))}) = 1
                /\ \E b \in 1..n :
                     /\ Log(i)[b].e = IF Log(i)[AttrDone(i, p, a, n)].fn.k = "tree"
                                      THEN "validatorDone" ELSE "chainDone"
                     /\ Log(i)[b].path = Append(p, Attr(a))
                     /\ Log(i)[b].res = Log(i)[AttrDone(i, p, a, n)].res
           /\ \A m \in 1..n :
                Log(i)[m].e = "attrDone" /\ ChainOf(Log(i)[m].path) = p
                  => Log(i)[m].path[Len(Log(i)[m].path)].i \in 1..Len(keys)
           /\ IF failed = {}
              THEN Log(i)[n].res = Undef
              ELSE /\ isPlainObject(Log(i)[n].res)
                   /\ DOMAIN Log(i)[n].res.o = {keys[a] : a \in failed}
                   /\ \A a \in failed :
                        Log(i)[n].res.o[keys[a]] = Log(i)[AttrDone(i, p, a, n)].res

(* A call resolved with a report that holds the empty string for deal      *)
(* and a nested report for car.engine.cylinders, and nothing for make or   *)
(* for model, a key of the data that the rule tree does not declare.       *)
C16_Witness ==
  \E i \in Calls :
    /\ calls[i].status = "resolved"
    /\ isPlainObject(calls[i].result)
    /\ DOMAIN calls[i].result.o = {"deal", "car"}
    /\ calls[i].result.o.deal = otherError
    /\ DOMAIN calls[i].result.o.car.o = {"engine"}
    /\ DOMAIN calls[i].result.o.car.o.engine.o = {"cylinders"}
    /\ "model" \in DOMAIN calls[i].data.o.car.o

(* C18: the report an invocation resolves with holds only what its own     *)
(* run has produced: every key of it is an attribute whose validation,     *)
(* in this invocation, resolved with the value reported; this also when    *)
(* the invocations of the validator overlap.                               *)
C18_ReportPerCall ==
  \A i \in Calls :
    calls[i].status = "resolved" /\ isPlainObject(calls[i].result) =>
      \A key \in DOMAIN calls[i].result.o :
        \E n \in DOMAIN Log(i) :
          /\ Log(i)[n].e = "attrDone" /\ Len(Log(i)[n].path) = 1
          /\ perAttributeRules.keys[Log(i)[n].path[1].i] = key
          /\ Log(i)[n].res = calls[i].result.o[key]

(* The second invocation started after the first, ran its rules and        *)
(* resolved with undefined while the first, which holds a failure, is      *)
(* still running.                                                          *)
C18_Witness ==
  /\ calls[1].status = "running"
  /\ \E n \in DOMAIN Log(1) : Log(1)[n].e = "attrDone" /\ containsError(Log(1)[n].res)
  /\ calls[2].status = "resolved" /\ calls[2].result = Undef
  /\ \E n \in DOMAIN Log(2) : Log(2)[n].e = "resolve"

(* The rule invoked at event n of call i has not settled: no result and    *)
(* no failure of it is in the log.                                         *)
Pending(i, n) ==
  /\ Log(i)[n].e = "invoke" /\ Log(i)[n].fn.k = "rule"
  /\ ~\E m \in DOMAIN Log(i) :
        Log(i)[m].e \in {"resolve", "reject"} /\ Log(i)[m].path = Log(i)[n].path

(* While a rule is pending its call is not settled and has done nothing    *)
(* since it invoked the rule: no rule was invoked after it.                *)
HungRuleBlocks ==
  \A i \in Calls :
    \A n \in DOMAIN Log(i) :
      Pending(i, n) => calls[i].status = "running" /\ n = Len(Log(i))

(* C19: a call whose rules all resolve eventually resolves; while a rule   *)
(* it has invoked does not resolve, the call does not resolve and invokes  *)
(* no further rule.                                                        *)
C19_Terminates ==
  /\ \A i \in Calls :
       calls[i].status = "running" ~> (calls[i].status = "resolved" \/ SomeRuleRejected(i))
  /\ []HungRuleBlocks
====
